---- MODULE Spec2Model ----
(***************************************************************************)
(* Model of todos/_done/reorder_index.py: the script that reorders the     *)
(* "- Plan: " blocks of INDEX.txt, most recent first.                      *)
(*                                                                         *)
(* A text (Python str) is a sequence of characters; a character is a       *)
(* one-character string.  The file INDEX.txt is the variable file.         *)
(***************************************************************************)
EXTENDS Integers, Sequences, FiniteSets, TLC

\* The results of int() and of parse_plan_timestamp: a value, None, or a
\* raised ValueError.
IntValue(n) == [kind |-> "int", val |-> n]
ValueError == [kind |-> "ValueError", val |-> 0]
None == [kind |-> "None", t |-> <<>>]
Raised == [kind |-> "ValueError", t |-> <<>>]
Timestamp(year, month, day, hour) == [kind |-> "tuple", t |-> <<year, month, day, hour>>]

(***************************************************************************)
(* Python str builtins used by the script.                                 *)
(***************************************************************************)

\* Characters for which str.isspace() holds (the ones of the model's alphabet).
Whitespace == {" ", "\t", "\n", "\f"}

\* Line boundaries of str.splitlines(): "\n" and "\f" stand for the whole set
\* (\r, \r\n, \v, \f, \x1c, \x1d, \x1e, \x85, U+2028, U+2029); read_text()
\* has already translated \r and \r\n to \n.
LineBoundaries == {"\n", "\f"}

\* Unicode decimal digits (category Nd): int() accepts them.
DecimalDigits == {"0", "1", "2", "3", "4", "5", "6", "7", "8", "9"}

\* SUP2 is the character U+00B2 SUPERSCRIPT TWO (written by name, as the module
\* is ASCII): str.isdigit() holds for it, yet it is no decimal digit and int()
\* rejects it.
SUP2 == "sup2"
IsDigitChars == DecimalDigits \cup {SUP2}

DigitValue(c) ==
    CASE c = "0" -> 0 [] c = "1" -> 1 [] c = "2" -> 2 [] c = "3" -> 3
      [] c = "4" -> 4 [] c = "5" -> 5 [] c = "6" -> 6 [] c = "7" -> 7
      [] c = "8" -> 8 [] c = "9" -> 9

\* str.lower() on one character.
LowerChar(c) ==
    CASE c = "A" -> "a" [] c = "M" -> "m" [] c = "P" -> "p" [] c = "E" -> "e"
      [] c = "T" -> "t" [] OTHER -> c

lower(s) == [i \in DOMAIN s |-> LowerChar(s[i])]

RECURSIVE rstrip(_)
rstrip(s) ==
    IF s = <<>> THEN <<>>
    ELSE IF s[Len(s)] \in Whitespace THEN rstrip(SubSeq(s, 1, Len(s) - 1))
    ELSE s

RECURSIVE lstrip(_)
lstrip(s) ==
    IF s = <<>> THEN <<>>
    ELSE IF s[1] \in Whitespace THEN lstrip(Tail(s))
    ELSE s

strip(s) == rstrip(lstrip(s))

startswith(s, p) == Len(s) >= Len(p) /\ SubSeq(s, 1, Len(p)) = p

endswith(s, p) == Len(s) >= Len(p) /\ SubSeq(s, Len(s) - Len(p) + 1, Len(s)) = p

\* s.count(c) for a one-character c.
count(s, c) == Cardinality({i \in DOMAIN s : s[i] = c})

\* s.find(c) and s.rfind(c), 1-based; 0 when c does not occur.
find(s, c) ==
    IF \E i \in DOMAIN s : s[i] = c
    THEN CHOOSE i \in DOMAIN s : s[i] = c /\ \A j \in 1..(i - 1) : s[j] # c
    ELSE 0

rfind(s, c) ==
    IF \E i \in DOMAIN s : s[i] = c
    THEN CHOOSE i \in DOMAIN s : s[i] = c /\ \A j \in (i + 1)..Len(s) : s[j] # c
    ELSE 0

\* s.isdigit(): non-empty and every character a digit.
isdigit(s) == s # <<>> /\ \A i \in DOMAIN s : s[i] \in IsDigitChars

\* sep.join(parts)
RECURSIVE join(_, _)
join(sep, parts) ==
    IF parts = <<>> THEN <<>>
    ELSE IF Len(parts) = 1 THEN parts[1]
    ELSE parts[1] \o sep \o join(sep, Tail(parts))

\* text.splitlines(): the lines without their boundaries; a boundary at the
\* very end of the text opens no further line.
RECURSIVE SplitLinesFrom(_, _, _, _)
SplitLinesFrom(text, i, cur, acc) ==
    IF i > Len(text) THEN (IF cur = <<>> THEN acc ELSE Append(acc, cur))
    ELSE IF text[i] \in LineBoundaries
         THEN SplitLinesFrom(text, i + 1, <<>>, Append(acc, cur))
         ELSE SplitLinesFrom(text, i + 1, Append(cur, text[i]), acc)

splitlines(text) == SplitLinesFrom(text, 1, <<>>, <<>>)

\* The value of a run of decimal digits.
RECURSIVE DecValue(_)
DecValue(s) ==
    IF s = <<>> THEN 0
    ELSE 10 * DecValue(SubSeq(s, 1, Len(s) - 1)) + DigitValue(s[Len(s)])

\* int(s): surrounding whitespace, an optional sign, decimal digits with
\* single underscores between them; ValueError otherwise.
int(s) ==
    LET t == strip(s)
        signed == t # <<>> /\ t[1] \in {"+", "-"}
        body == IF signed THEN Tail(t) ELSE t
        wellFormed ==
            /\ body # <<>>
            /\ \A i \in DOMAIN body : body[i] \in DecimalDigits \cup {"_"}
            /\ body[1] # "_" /\ body[Len(body)] # "_"
            /\ \A i \in 1..(Len(body) - 1) : ~(body[i] = "_" /\ body[i + 1] = "_")
        digits == SelectSeq(body, LAMBDA c : c # "_")
    IN  IF ~wellFormed THEN ValueError
        ELSE IF signed /\ t[1] = "-" THEN IntValue(0 - DecValue(digits))
        ELSE IntValue(DecValue(digits))

(***************************************************************************)
(* parse_plan_timestamp: None, a raised ValueError, or <<year, month, day, *)
(* hour>>.                                                                 *)
(***************************************************************************)

\* hour 1..12 with its meridiem, as an hour of the day.
To24Hour(hour, meridiem) ==
    IF meridiem = <<"a", "m">>
    THEN (IF hour = 12 THEN 0 ELSE hour)
    ELSE (IF hour = 12 THEN 12 ELSE hour + 12)

\* time_part, after the date has been read.
ParseTimePart(year, month, day, time_part0) ==
    LET time_part == lower(time_part0)
        meridiem == SubSeq(time_part, Len(time_part) - 1, Len(time_part))
        hour_str == SubSeq(time_part, 1, Len(time_part) - 2)
        hour == int(hour_str)
    IN  IF ~(endswith(time_part, <<"a", "m">>) \/ endswith(time_part, <<"p", "m">>))
        THEN None
        ELSE IF ~isdigit(hour_str) THEN None
        ELSE IF hour = ValueError THEN Raised
        ELSE IF hour.val < 1 \/ hour.val > 12 THEN None
        ELSE Timestamp(year, month, day, To24Hour(hour.val, meridiem))

parse_plan_timestamp(filename) ==
    LET us == find(filename, "_")
        prefix == IF us = 0 THEN filename ELSE SubSeq(filename, 1, us - 1)
        cut == rfind(prefix, "-")
        date_part == SubSeq(prefix, 1, cut - 1)
        time_part == SubSeq(prefix, cut + 1, Len(prefix))
        h1 == find(date_part, "-")
        rest == SubSeq(date_part, h1 + 1, Len(date_part))
        h2 == find(rest, "-")
        year == int(SubSeq(date_part, 1, h1 - 1))
        month == int(SubSeq(rest, 1, h2 - 1))
        day == int(SubSeq(rest, h2 + 1, Len(rest)))
    IN  IF count(prefix, "-") < 3 THEN None
        ELSE IF year = ValueError \/ month = ValueError \/ day = ValueError THEN None
        ELSE ParseTimePart(year.val, month.val, day.val, time_part)

(***************************************************************************)
(* The script's pure steps.  Python's 0-based positions are kept for the   *)
(* block index (entry[1]); positions in lines are 1-based, 0 for None.     *)
(***************************************************************************)

NL == <<"\n">>
Entries == <<"E", "n", "t", "r", "i", "e", "s">>
PlanPrefix == <<"-", " ", "P", "l", "a", "n", ":", " ">>

\* entries_index: the first line whose stripped content is 'Entries'.
FindEntries(lines) ==
    IF \E i \in DOMAIN lines : strip(lines[i]) = Entries
    THEN CHOOSE i \in DOMAIN lines :
            /\ strip(lines[i]) = Entries
            /\ \A j \in 1..(i - 1) : strip(lines[j]) # Entries
    ELSE 0

\* set(line.strip()) == {'='}
IsUnderline(line) ==
    LET t == strip(line) IN t # <<>> /\ \A i \in DOMAIN t : t[i] = "="

\* BodyStart that never looks for the underline.
BodyStartAfterHeading(lines, entries_index) == entries_index + 1

\* body_start: the position of the first body line.
BodyStart(lines, entries_index) ==
    LET underline_index == entries_index + 1
    IN  IF underline_index <= Len(lines) /\ IsUnderline(lines[underline_index])
        THEN underline_index + 1
        ELSE entries_index + 1

HeaderLines(lines, entries_index) ==
    SubSeq(lines, 1, BodyStart(lines, entries_index) - 1)

BodyLines(lines, entries_index) ==
    SubSeq(lines, BodyStart(lines, entries_index), Len(lines))

\* The loop over body_lines: a '- Plan: ' line opens a block, any other line
\* joins the open block or, when none is open, is skipped.
RECURSIVE SplitBlocksFrom(_, _, _, _)
SplitBlocksFrom(body_lines, i, current, blocks) ==
    IF i > Len(body_lines)
    THEN (IF current # <<>> THEN Append(blocks, current) ELSE blocks)
    ELSE IF startswith(body_lines[i], PlanPrefix)
         THEN SplitBlocksFrom(body_lines, i + 1, <<body_lines[i]>>,
                              IF current # <<>> THEN Append(blocks, current) ELSE blocks)
         ELSE IF current # <<>>
              THEN SplitBlocksFrom(body_lines, i + 1, Append(current, body_lines[i]), blocks)
              ELSE SplitBlocksFrom(body_lines, i + 1, current, blocks)

SplitBlocks(body_lines) == SplitBlocksFrom(body_lines, 1, <<>>, <<>>)

\* BlockText without the rstrip.
BlockTextNotStripped(block) == join(NL, block)

\* BlockText of the '- Plan: ' line alone.
BlockTextFirstLine(block) == rstrip(block[1])

\* '\n'.join(block).rstrip()
BlockText(block) == rstrip(join(NL, block))

\* first_line.split(':', 1)[1].strip()
PlanOf(block) ==
    LET first_line == block[1]
    IN  strip(SubSeq(first_line, find(first_line, ":") + 1, Len(first_line)))

\* One plan_entries element: (timestamp, index, text).
PlanEntry(blocks, index) ==
    [timestamp |-> parse_plan_timestamp(PlanOf(blocks[index + 1])),
     index |-> index,
     text |-> BlockText(blocks[index + 1])]

PlanEntries(blocks) == [k \in 1..Len(blocks) |-> PlanEntry(blocks, k - 1)]

\* invalid_plans stopping at the first invalid plan.
InvalidPlansFirstOnly(blocks) ==
    LET bad == {k \in DOMAIN blocks : parse_plan_timestamp(PlanOf(blocks[k])) = None}
    IN  IF bad = {} THEN <<>>
        ELSE <<PlanOf(blocks[CHOOSE k \in bad : \A j \in bad : k <= j])>>

\* invalid_plans: the plan of every block whose timestamp is None, in order.
RECURSIVE InvalidPlans(_)
InvalidPlans(blocks) ==
    IF blocks = <<>> THEN <<>>
    ELSE LET rest == InvalidPlans(SubSeq(blocks, 1, Len(blocks) - 1))
             plan == PlanOf(blocks[Len(blocks)])
         IN  IF parse_plan_timestamp(plan) = None THEN Append(rest, plan) ELSE rest

\* int(hour_str) raised inside the loop for some block: the traceback ends
\* the run before anything is reported.
LoopRaises(blocks) ==
    \E k \in DOMAIN blocks : parse_plan_timestamp(PlanOf(blocks[k])) = Raised

\* SortKey with the year left ascending.
SortKeyYearAscending(entry) ==
    LET ts == entry.timestamp
    IN  IF ts # None
        THEN <<ts.t[1], 0 - ts.t[2], 0 - ts.t[3], 0 - ts.t[4], entry.index>>
        ELSE <<0, 0, 0, 0, entry.index>>

\* SortKey with the index negated like the other components.
SortKeyIndexDescending(entry) ==
    LET ts == entry.timestamp
    IN  IF ts # None
        THEN <<0 - ts.t[1], 0 - ts.t[2], 0 - ts.t[3], 0 - ts.t[4], 0 - entry.index>>
        ELSE <<0, 0, 0, 0, 0 - entry.index>>

\* The key of plan_entries.sort.
SortKey(entry) ==
    LET ts == entry.timestamp
    IN  IF ts # None
        THEN <<0 - ts.t[1], 0 - ts.t[2], 0 - ts.t[3], 0 - ts.t[4], entry.index>>
        ELSE <<0, 0, 0, 0, entry.index>>

\* Python's order on tuples of integers of one length.
TupleLess(a, b) ==
    \E i \in DOMAIN a : a[i] < b[i] /\ \A j \in 1..(i - 1) : a[j] = b[j]

\* list.sort(key=...): stable, ascending by key.
RECURSIVE SortByKey(_)
SortByKey(entries) ==
    IF entries = <<>> THEN <<>>
    ELSE LET e == entries[Len(entries)]
             sorted == SortByKey(SubSeq(entries, 1, Len(entries) - 1))
             \* e goes after every element whose key is not greater than its own
             n == Cardinality({i \in DOMAIN sorted :
                                  ~TupleLess(SortKey(e), SortKey(sorted[i]))})
         IN  SubSeq(sorted, 1, n) \o <<e>> \o SubSeq(sorted, n + 1, Len(sorted))

OrderedBlocks(plan_entries) == [i \in DOMAIN plan_entries |-> plan_entries[i].text]

HeaderText(header_lines) == rstrip(join(NL, header_lines))

NewText(header_lines, ordered_blocks) ==
    HeaderText(header_lines) \o NL \o NL \o join(NL \o NL, ordered_blocks) \o NL

\* moved: the positions whose block text differs before and after the sort.
Moved(original_blocks, ordered_blocks) ==
    Cardinality({i \in DOMAIN original_blocks : ordered_blocks[i] # original_blocks[i]})

\* NoChanges that overlooks whitespace at the end of the texts.
NoChangesUpToEnd(original_text, new_text) == rstrip(original_text) = rstrip(new_text)

NoChanges(original_text, new_text) == original_text = new_text

(***************************************************************************)
(* The input files the runs start from.                                    *)
(***************************************************************************)

MaxBodyLines == 3
MaxRuns == 2

\* The header part of an input, as text: without a heading; the heading alone;
\* a title, a form feed and the heading between blanks; title, heading and an
\* underline with a trailing blank; the heading and a line that is no underline.
Title == <<"T">>
HeaderMissing == Title
HeaderPlain == Entries
HeaderSpaced == Title \o <<"\f", " ">> \o Entries \o <<" ">>
HeaderUnderlined == Title \o <<"\n", " ">> \o Entries \o <<" ", "\n", "=", "=", " ">>
HeaderNotUnderlined == Entries \o <<"\n", "=", " ", "=">>

Headers == {HeaderMissing, HeaderPlain, HeaderSpaced, HeaderUnderlined, HeaderNotUnderlined}

\* 2026-1-28-1pm_a
PlanNew == PlanPrefix \o
    <<"2", "0", "2", "6", "-", "1", "-", "2", "8", "-", "1", "p", "m", "_", "a">>
\* 2025-06-1-9AM, with a trailing blank
PlanOld == PlanPrefix \o
    <<"2", "0", "2", "5", "-", "0", "6", "-", "1", "-", "9", "A", "M", " ">>
\* weird_name
PlanWeird == PlanPrefix \o <<"w", "e", "i", "r", "d", "_", "n", "a", "m", "e">>
\* 2026-1-1-<SUP2>am
PlanSup == PlanPrefix \o <<"2", "0", "2", "6", "-", "1", "-", "1", "-", SUP2, "a", "m">>
Note == <<"n", " ">>
Blank == <<>>

BodyPool == {PlanNew, PlanOld, PlanWeird, PlanSup, Note, Blank}

Bodies == UNION {[1..n -> BodyPool] : n \in 0..MaxBodyLines}

\* how the text ends after its last line
Endings == {<<>>, NL}

\* each body line after a newline
RECURSIVE BodyText(_)
BodyText(body) ==
    IF body = <<>> THEN <<>> ELSE NL \o body[1] \o BodyText(Tail(body))

InputFiles == {h \o BodyText(b) \o e : h \in Headers, b \in Bodies, e \in Endings}

(***************************************************************************)
(* The state: the file, and the script's variables during a run.           *)
(***************************************************************************)

VARIABLES
    file,             \* the content of INDEX.txt
    writes,           \* the number of INDEX_PATH.write_text calls so far
    runs,             \* the number of runs of the script started
    pc,               \* where the current run is
    outcome,          \* how the run ended: the SystemExit, the traceback, the line printed
    original_text, header_lines, blocks, plan_entries, invalid_plans,
    original_blocks, ordered_blocks, new_text,
    reported,         \* the plans listed by the SystemExit message
    moved,            \* the count printed by 'Sections moved'
    prev_outcome,     \* the outcome of the run before the current one
    prev_file,        \* the file as that run left it
    filename,         \* the argument of a call of parse_plan_timestamp on its own
    timestamp         \* what that call returned or raised

vars == <<file, writes, runs, pc, outcome, original_text, header_lines, blocks,
          plan_entries, invalid_plans, original_blocks, ordered_blocks, new_text,
          reported, moved, prev_outcome, prev_file, filename, timestamp>>

parseVars == <<filename, timestamp>>

scriptVars == <<original_text, header_lines, blocks, plan_entries, invalid_plans,
                original_blocks, ordered_blocks, new_text>>

Pending == [kind |-> "pending", t |-> <<>>]

Init ==
    /\ file \in InputFiles
    /\ writes = 0
    /\ runs = 1
    /\ pc = "read"
    /\ outcome = "running"
    /\ original_text = <<>>
    /\ header_lines = <<>>
    /\ blocks = <<>>
    /\ plan_entries = <<>>
    /\ invalid_plans = <<>>
    /\ original_blocks = <<>>
    /\ ordered_blocks = <<>>
    /\ new_text = <<>>
    /\ reported = <<>>
    /\ moved = 0
    /\ prev_outcome = "none"
    /\ prev_file = <<>>
    /\ filename = <<>>
    /\ timestamp = Pending

\* Lines 35-73: read the file, find the heading, split header and blocks.
ReadAndSplit ==
    /\ pc = "read"
    /\ original_text' = file
    /\ LET lines == splitlines(file)
           entries_index == FindEntries(lines)
       IN  IF entries_index = 0
           THEN /\ outcome' = "heading_not_found"
                /\ pc' = "done"
                /\ UNCHANGED <<header_lines, blocks>>
           ELSE /\ header_lines' = HeaderLines(lines, entries_index)
                /\ blocks' = SplitBlocks(BodyLines(lines, entries_index))
                /\ pc' = "validate"
                /\ UNCHANGED outcome
    /\ UNCHANGED <<file, writes, runs, plan_entries, invalid_plans, original_blocks,
                   ordered_blocks, new_text, reported, moved, prev_outcome, prev_file,
                   parseVars>>

\* The check of line 86 left out.
HasInvalidIgnored(invalid) == FALSE

\* Does the script stop at line 86?
HasInvalid(invalid) == invalid # <<>>

\* Lines 75-92: parse every block's plan, collect the invalid ones, stop on any.
Validate ==
    /\ pc = "validate"
    /\ original_blocks' = [k \in DOMAIN blocks |-> BlockText(blocks[k])]
    /\ IF LoopRaises(blocks)
       THEN /\ outcome' = "traceback"
            /\ pc' = "done"
            /\ UNCHANGED <<plan_entries, invalid_plans, reported>>
       ELSE /\ plan_entries' = PlanEntries(blocks)
            /\ invalid_plans' = InvalidPlans(blocks)
            /\ IF HasInvalid(invalid_plans')
               THEN /\ outcome' = "invalid_plans"
                    /\ reported' = invalid_plans'
                    /\ pc' = "done"
               ELSE /\ pc' = "sort"
                    /\ UNCHANGED <<outcome, reported>>
    /\ UNCHANGED <<file, writes, runs, original_text, header_lines, blocks,
                   ordered_blocks, new_text, moved, prev_outcome, prev_file, parseVars>>

\* Lines 94-107: sort the entries, build the text, write the file.
SortAndWrite ==
    /\ pc = "sort"
    /\ plan_entries' = SortByKey(plan_entries)
    /\ ordered_blocks' = OrderedBlocks(plan_entries')
    /\ new_text' = NewText(header_lines, ordered_blocks')
    /\ file' = new_text'
    /\ writes' = writes + 1
    /\ pc' = "report"
    /\ UNCHANGED <<runs, outcome, original_text, header_lines, blocks, invalid_plans,
                   original_blocks, reported, moved, prev_outcome, prev_file, parseVars>>

\* Lines 109-114: print the one result line.
Report ==
    /\ pc = "report"
    /\ IF NoChanges(original_text, new_text)
       THEN /\ outcome' = "no_changes"
            /\ UNCHANGED moved
       ELSE /\ outcome' = "updated"
            /\ moved' = Moved(original_blocks, ordered_blocks)
    /\ pc' = "done"
    /\ UNCHANGED <<file, writes, runs, scriptVars, reported, prev_outcome, prev_file,
                   parseVars>>

\* The script is run again on the file the last run left.
RunAgain ==
    /\ pc = "done"
    /\ runs < MaxRuns
    /\ runs' = runs + 1
    /\ prev_outcome' = outcome
    /\ prev_file' = file
    /\ pc' = "read"
    /\ outcome' = "running"
    /\ original_text' = <<>>
    /\ header_lines' = <<>>
    /\ blocks' = <<>>
    /\ plan_entries' = <<>>
    /\ invalid_plans' = <<>>
    /\ original_blocks' = <<>>
    /\ ordered_blocks' = <<>>
    /\ new_text' = <<>>
    /\ reported' = <<>>
    /\ moved' = 0
    /\ UNCHANGED <<file, writes, parseVars>>

Next == ReadAndSplit \/ Validate \/ SortAndWrite \/ Report \/ RunAgain

Spec == Init /\ [][Next]_vars

(***************************************************************************)
(* parse_plan_timestamp on its own: one call on a filename.                *)
(***************************************************************************)

Years == {<<"2", "0", "2", "6">>, <<"x">>}
Months == {<<"1">>, <<"1", "3">>, <<>>}
Days == {<<"4", "0">>, <<"-", "5">>, <<"3", "-", "4">>, <<" ", "7">>}
DateTimeSeparators == {<<"-">>, <<>>}
Hours == {<<>>, <<"0">>, <<"1">>, <<"1", "1">>, <<"1", "2">>, <<"1", "3">>, <<"0", "7">>,
          <<SUP2>>, <<"1", " ">>, <<"+", "1">>}
Meridiems == {<<"a", "m">>, <<"p", "m">>, <<"A", "M">>, <<"P", "m">>, <<"a">>,
              <<"a", "m", "x">>}
Tails == {<<>>, <<"_", "x">>, <<"_", "a", "-", "b", "-", "c">>, <<"-", "z">>}

Filenames ==
    { y \o <<"-">> \o m \o <<"-">> \o d \o sep \o h \o mer \o tl :
        y \in Years, m \in Months, d \in Days, sep \in DateTimeSeparators,
        h \in Hours, mer \in Meridiems, tl \in Tails }
    \cup { <<>>,
           <<"w", "e", "i", "r", "d", "_", "n", "a", "m", "e">>,
           <<"a", "_", "2", "0", "2", "6", "-", "1", "-", "2", "-", "1", "p", "m">> }

ParseInit ==
    /\ filename \in Filenames
    /\ timestamp = Pending
    /\ file = <<>>
    /\ writes = 0
    /\ runs = 0
    /\ pc = "parse"
    /\ outcome = "running"
    /\ original_text = <<>>
    /\ header_lines = <<>>
    /\ blocks = <<>>
    /\ plan_entries = <<>>
    /\ invalid_plans = <<>>
    /\ original_blocks = <<>>
    /\ ordered_blocks = <<>>
    /\ new_text = <<>>
    /\ reported = <<>>
    /\ moved = 0
    /\ prev_outcome = "none"
    /\ prev_file = <<>>

ParseCall ==
    /\ pc = "parse"
    /\ timestamp' = parse_plan_timestamp(filename)
    /\ pc' = "parsed"
    /\ UNCHANGED <<filename, file, writes, runs, outcome, scriptVars, reported, moved,
                   prev_outcome, prev_file>>

ParseNext == ParseCall

ParseSpec == ParseInit /\ [][ParseNext]_vars

(***************************************************************************)
(* What the claims speak of, read off the input blocks and the written     *)
(* file rather than off the script's variables.                            *)
(***************************************************************************)

Succeeded == pc = "done" /\ outcome \in {"no_changes", "updated"}
Aborted == {"heading_not_found", "invalid_plans", "traceback"}

\* the parsed timestamp of a block, from the text after its '- Plan: ' prefix
PlanId(block) == strip(SubSeq(block[1], Len(PlanPrefix) + 1, Len(block[1])))
ParsedOf(block) == parse_plan_timestamp(PlanId(block))
Parses(block) == ParsedOf(block).kind = "tuple"

\* a is a later (year, month, day, hour) than b
Later(a, b) == \E i \in 1..4 : a[i] > b[i] /\ \A j \in 1..(i - 1) : a[j] = b[j]

HasHeading(text) ==
    LET lines == splitlines(text) IN \E i \in DOMAIN lines : strip(lines[i]) = Entries

\* the blocks of a text that has the heading, as lists of lines
BlocksOfText(text) ==
    LET lines == splitlines(text)
    IN  SplitBlocks(BodyLines(lines, FindEntries(lines)))

\* the blocks of the written file, as texts without the blank lines after them
WrittenBlocks == BlocksOfText(file)
WrittenTexts == [p \in DOMAIN WrittenBlocks |-> rstrip(join(NL, WrittenBlocks[p]))]

\* the position in the output of input block i (1-based), by the entries' indices
PositionOf(i) == CHOOSE p \in DOMAIN plan_entries : plan_entries[p].index = i - 1

IsRelocation ==
    /\ Len(plan_entries) = Len(blocks)
    /\ Len(WrittenBlocks) = Len(blocks)
    /\ {plan_entries[p].index : p \in DOMAIN plan_entries} = 0..(Len(blocks) - 1)

C2_Stable ==
    Succeeded =>
        /\ IsRelocation
        /\ \A i, j \in DOMAIN blocks :
              (i < j /\ ParsedOf(blocks[i]).t = ParsedOf(blocks[j]).t) =>
                  /\ PositionOf(i) < PositionOf(j)
                  /\ startswith(WrittenTexts[PositionOf(i)], rstrip(blocks[i][1]))
                  /\ startswith(WrittenTexts[PositionOf(j)], rstrip(blocks[j][1]))

\* two blocks of one timestamp and different text, written
C2_Witness ==
    /\ Succeeded
    /\ \E i, j \in DOMAIN blocks :
          /\ i < j
          /\ ParsedOf(blocks[i]).t = ParsedOf(blocks[j]).t
          /\ BlockText(blocks[i]) # BlockText(blocks[j])

\* the file lacks the heading, or one of its blocks has a plan that does not parse
CannotBeReordered(text) ==
    \/ ~HasHeading(text)
    \/ LET bs == BlocksOfText(text) IN \E k \in DOMAIN bs : ~Parses(bs[k])

\* C3: a run on a file without the heading, or with a block whose plan does
\* not parse, never writes the file and ends aborted; the file is written
\* only when the heading is there and every plan parses.
C3_AllOrNothing ==
    [][ CannotBeReordered(file) =>
            /\ file' = file
            /\ writes' = writes
            /\ pc' \notin {"sort", "report"}
            /\ (pc' = "done" => outcome' \in Aborted) ]_vars

\* a run aborted for one plan although another block parsed
C3_Witness ==
    /\ pc = "done"
    /\ outcome = "invalid_plans"
    /\ \E k \in DOMAIN blocks : Parses(blocks[k])
    /\ file = original_text
    /\ writes = 0

\* the positions of the blocks whose plan gives None, ascending
RECURSIVE Ascending(_)
Ascending(S) ==
    IF S = {} THEN <<>>
    ELSE LET m == CHOOSE k \in S : \A j \in S : k <= j
         IN  <<m>> \o Ascending(S \ {m})

C5_Idempotent ==
    (runs >= 2 /\ prev_outcome \in {"no_changes", "updated"}) =>
        /\ outcome \in {"running", "no_changes"}
        /\ file = prev_file
        /\ (pc = "done" => outcome = "no_changes" /\ new_text = prev_file /\ writes = runs)

\* a second run after a run that changed the file
C5_Witness ==
    /\ runs = 2
    /\ pc = "done"
    /\ prev_outcome = "updated"
    /\ outcome = "no_changes"
    /\ Len(blocks) >= 2

\* The documented algorithm of the parser, on the pieces of the part before
\* the first '_'.
IsIntegerText(s) ==
    LET t == strip(s)
        u == IF t # <<>> /\ t[1] \in {"+", "-"} THEN Tail(t) ELSE t
    IN  u # <<>> /\ \A i \in DOMAIN u : u[i] \in DecimalDigits

IntegerOfText(s) ==
    LET t == strip(s)
    IN  IF t[1] = "-" THEN 0 - DecValue(Tail(t))
        ELSE IF t[1] = "+" THEN DecValue(Tail(t))
        ELSE DecValue(t)

DocumentedTimestamp(name) ==
    LET upto == IF \E i \in DOMAIN name : name[i] = "_"
                THEN (CHOOSE i \in DOMAIN name :
                        name[i] = "_" /\ \A j \in 1..(i - 1) : name[j] # "_") - 1
                ELSE Len(name)
        prefix == SubSeq(name, 1, upto)
        hyphens == Ascending({i \in DOMAIN prefix : prefix[i] = "-"})
        n == Len(hyphens)
        yearText == SubSeq(prefix, 1, hyphens[1] - 1)
        monthText == SubSeq(prefix, hyphens[1] + 1, hyphens[2] - 1)
        dayText == SubSeq(prefix, hyphens[2] + 1, hyphens[n] - 1)
        piece == lower(SubSeq(prefix, hyphens[n] + 1, Len(prefix)))
        k == Len(piece)
        pm == k >= 2 /\ piece[k - 1] = "p" /\ piece[k] = "m"
        am == k >= 2 /\ piece[k - 1] = "a" /\ piece[k] = "m"
        hourText == SubSeq(piece, 1, k - 2)
        allDigits == hourText # <<>> /\ \A i \in DOMAIN hourText : hourText[i] \in DecimalDigits
        h == DecValue(hourText)
    IN  IF n >= 3
           /\ IsIntegerText(yearText) /\ IsIntegerText(monthText) /\ IsIntegerText(dayText)
           /\ (am \/ pm) /\ allDigits /\ h >= 1 /\ h <= 12
        THEN Timestamp(IntegerOfText(yearText), IntegerOfText(monthText),
                       IntegerOfText(dayText), (h % 12) + (IF pm THEN 12 ELSE 0))
        ELSE None

\* C6: parse_plan_timestamp returns (year, month, day, hour24), hour24 in
\* 0..23, exactly when the documented algorithm does, and signals 'not
\* parseable' (None) in every other case.
C6_AgreesWithDocumented ==
    pc = "parsed" =>
        /\ timestamp = DocumentedTimestamp(filename)
        /\ (timestamp.kind = "tuple" => timestamp.t[4] \in 0..23)

\* The same for the filenames without a digit that is no decimal digit.
AgreesOnDecimalDigits ==
    (pc = "parsed" /\ \A i \in DOMAIN filename : filename[i] # SUP2) =>
        /\ timestamp = DocumentedTimestamp(filename)
        /\ (timestamp.kind = "tuple" => timestamp.t[4] \in 0..23)

\* the lines of a block without the blank lines at its end
RECURSIVE DropBlankEnd(_)
DropBlankEnd(ls) ==
    IF ls # <<>> /\ strip(ls[Len(ls)]) = <<>>
    THEN DropBlankEnd(SubSeq(ls, 1, Len(ls) - 1))
    ELSE ls

\* ... and without the whitespace at the end of its last line
TrimmedAtEnd(ls) ==
    LET kept == DropBlankEnd(ls)
    IN  [i \in DOMAIN kept |-> IF i = Len(kept) THEN rstrip(kept[i]) ELSE kept[i]]

\* C7 as stated: the written blocks are the input blocks, relocated, each
\* with all of its lines (the blank lines that end a block aside).
C7_LinesKept ==
    Succeeded =>
        /\ IsRelocation
        /\ \A i \in DOMAIN blocks :
              DropBlankEnd(WrittenBlocks[PositionOf(i)]) = DropBlankEnd(blocks[i])

\* C7, amended: the written blocks are the input blocks, relocated, each with
\* its lines in order, up to the whitespace at the end of the block, which is
\* trimmed.
C7_LinesKeptTrimmed ==
    Succeeded =>
        /\ IsRelocation
        /\ \A i \in DOMAIN blocks :
              DropBlankEnd(WrittenBlocks[PositionOf(i)]) = TrimmedAtEnd(blocks[i])

\* a block with a continuation line moved to another position
C7_Witness ==
    /\ Succeeded
    /\ \E i \in DOMAIN blocks :
          /\ Len(DropBlankEnd(blocks[i])) >= 2
          /\ PositionOf(i) # i

\* the header of a text: through the first heading line and the underline
\* right after it, if there is one
HeaderOf(text) ==
    LET lines == splitlines(text)
        e == CHOOSE i \in DOMAIN lines :
                strip(lines[i]) = Entries /\ \A j \in 1..(i - 1) : strip(lines[j]) # Entries
        underlined == /\ e < Len(lines)
                      /\ strip(lines[e + 1]) # <<>>
                      /\ \A c \in 1..Len(strip(lines[e + 1])) : strip(lines[e + 1])[c] = "="
    IN  SubSeq(lines, 1, IF underlined THEN e + 1 ELSE e)

\* C8: a successful run writes the header's lines back in their order and
\* unchanged, but for the whitespace trimmed at the header's end; the line
\* after them is blank, and the written file has the same header.
C8_HeaderKept ==
    Succeeded =>
        LET before == HeaderOf(original_text)
            written == splitlines(file)
            n == Len(before)
        IN  /\ Len(written) > n
            /\ \A i \in 1..(n - 1) : written[i] = before[i]
            /\ written[n] = rstrip(before[n])
            /\ written[n + 1] = <<>>
            /\ Len(HeaderOf(file)) = n

\* a header of three lines with whitespace at its end, above blocks that moved
C8_Witness ==
    /\ Succeeded
    /\ Len(header_lines) = 3
    /\ header_lines[3] # rstrip(header_lines[3])
    /\ outcome = "updated"
    /\ moved > 0

EndsWithOneNewline(text) ==
    /\ text # <<>>
    /\ text[Len(text)] = "\n"
    /\ (Len(text) >= 2 => text[Len(text) - 1] # "\n")

\* C9: the text a successful run writes is the header, a blank line, the
\* blocks in sorted order with one blank line between two of them, and one
\* newline at the end, for any number of blocks.
C9_Layout ==
    Succeeded =>
        /\ file = rstrip(join(NL, HeaderOf(original_text))) \o NL \o NL
                     \o join(NL \o NL, ordered_blocks) \o NL
        /\ EndsWithOneNewline(file)

\* The same for the runs with at least one block.
LayoutWithBlocks ==
    (Succeeded /\ blocks # <<>>) =>
        /\ file = rstrip(join(NL, HeaderOf(original_text))) \o NL \o NL
                     \o join(NL \o NL, ordered_blocks) \o NL
        /\ EndsWithOneNewline(file)

\* C10: a successful run reports 'no changes' exactly when the text written
\* is the text read, and otherwise the number of positions at which the block
\* before the sort and the block after it differ.
C10_Report ==
    Succeeded =>
        LET before == [i \in DOMAIN blocks |-> rstrip(join(NL, blocks[i]))]
            after == WrittenTexts
        IN  /\ (outcome = "no_changes") <=> (file = original_text)
            /\ outcome = "updated" =>
                  moved = Cardinality({i \in DOMAIN before : before[i] # after[i]})
            /\ outcome = "no_changes" => moved = 0

\* blocks already in order, rewritten for whitespace: an update that moved none
C10_Witness ==
    /\ Succeeded
    /\ outcome = "updated"
    /\ moved = 0
    /\ Len(blocks) >= 2

====
